---- MODULE Spec2Model ----
(***************************************************************************)
(* Contract source verification and compiler-version query of the explorer *)
(* backend (server/backend/backend.go).                                    *)
(*                                                                         *)
(* Strings that the code inspects character by character (bytecode, the    *)
(* compiler's version string) are sequences of one-character strings;      *)
(* strings the code only compares or concatenates are TLA+ strings.  A Go  *)
(* pointer or error that may be nil is a sequence of length 0 or 1.        *)
(***************************************************************************)
EXTENDS Integers, Sequences, FiniteSets, TLC

VARIABLES
    store,          \* the Contracts collection: canonical address -> document
    now,            \* the wall clock read by time.Now()
    pc,             \* position of each VerifyContract request
    contractData,   \* the request's argument
    contract,       \* the request's local `contract` (nil or one document)
    preRead,        \* the document as the request fetched it
    compileData,    \* the request's local `compileData`
    result,         \* what the request returned: [ret, err]
    atCall,         \* the stored document for the address when the call began
    compilerCalls,  \* compiler invocations made by the current call
    writes,         \* store mutations made by the current call
    storeFault,     \* the store failed for a reason other than a conflict
    bcPrefix, bcHashA, bcHashB, canonPc, canonOnce, canonTwice,
    fullVersion, versionErr, versionPc, versionResult

vars == <<store, now, pc, contractData, contract, preRead, compileData, result, atCall,
          compilerCalls, writes, storeFault,
          bcPrefix, bcHashA, bcHashB, canonPc, canonOnce, canonTwice,
          fullVersion, versionErr, versionPc, versionResult>>

verifyVars == <<store, now, pc, contractData, contract, preRead, compileData, result,
                atCall, compilerCalls, writes, storeFault>>

canonVars == <<bcPrefix, bcHashA, bcHashB, canonPc, canonOnce, canonTwice>>

versionVars == <<fullVersion, versionErr, versionPc, versionResult>>

----------------------------------------------------------------------------
(* Bounds *)

MaxTime == 1

MaxPrefixFrags == 3

MaxHashFrags == 1

MaxDigits == 1

----------------------------------------------------------------------------
(* Bytecode canonicalization: regexp `00a165627a7a72305820.*0029$` *)

Marker ==
    <<"0","0","a","1","6","5","6","2","7","a","7","a","7","2","3","0","5","8","2","0">>

Trailer == <<"0","0","2","9">>

\* `.` of a Go regexp without the s flag: any character but newline
Dot(c) == c # "\n"

HasLiteralAt(s, i, lit) ==
    /\ i + Len(lit) - 1 <= Len(s)
    /\ SubSeq(s, i, i + Len(lit) - 1) = lit

MatchesAt_plus(s, i) ==
    /\ HasLiteralAt(s, i, Marker)
    /\ Len(s) - Len(Trailer) + 1 >= i + Len(Marker) + 1
    /\ SubSeq(s, Len(s) - Len(Trailer) + 1, Len(s)) = Trailer
    /\ \A k \in (i + Len(Marker))..(Len(s) - Len(Trailer)) : Dot(s[k])

\* the pattern matches s starting at i: the marker at i, then .*, then 0029
\* ending the text ($ without the m flag is end of text)
MatchesAt(s, i) ==
    /\ HasLiteralAt(s, i, Marker)
    /\ Len(s) - Len(Trailer) + 1 >= i + Len(Marker)
    /\ SubSeq(s, Len(s) - Len(Trailer) + 1, Len(s)) = Trailer
    /\ \A k \in (i + Len(Marker))..(Len(s) - Len(Trailer)) : Dot(s[k])

MatchStart_rightmost(s) ==
    LET starts == {i \in 1..Len(s) : MatchesAt(s, i)}
    IN  IF starts = {} THEN 0
        ELSE CHOOSE i \in starts : \A j \in starts : j <= i

\* start of the leftmost match, 0 when the pattern does not match
MatchStart(s) ==
    LET starts == {i \in 1..Len(s) : MatchesAt(s, i)}
    IN  IF starts = {} THEN 0
        ELSE CHOOSE i \in starts : \A j \in starts : i <= j

\* reg.ReplaceAllString(s, ``): a match runs to the end of the text, so there
\* is at most one, and what remains is the text before it
ReplaceAllString(s) ==
    IF MatchStart(s) = 0 THEN s ELSE SubSeq(s, 1, MatchStart(s) - 1)

\* RuntimeCode[2:]
DropOx(code) == SubSeq(code, 3, Len(code))

----------------------------------------------------------------------------
(* Addresses, the compiler and the store *)

Procs == {"r1", "r2"}

\* addresses as callers submit them
SubmittedAddresses == {"0xa1", "0xA1"}

\* common.HexToAddress(a).Hex(): the one canonical spelling of an address
HexToAddressHex(a) ==
    CASE a = "0xa1" -> "0xA1"
      [] a = "0xA1" -> "0xA1"

CanonicalAddresses == {HexToAddressHex(a) : a \in SubmittedAddresses}

ContractNames == {"Foo", "Bar"}

SrcBad == "contract {"

SrcFoo == "contract Foo { function f() {} }"

SrcFooBar == "contract Foo { function f() {} } contract Bar { function g(); }"

SrcIface == "interface Bar { }"

SourceCodes == {SrcBad, SrcFoo, SrcFooBar, SrcIface}

Ox == <<"0", "x">>

CodeA == <<"6", "0", "0", "1">>

CodeB == <<"6", "0", "0", "2">>

SolcVersion == "0.4.24+commit.e67f0147"

Unit(code, source) ==
    [RuntimeCode |-> code,
     Info |-> [Source |-> source, CompilerVersion |-> SolcVersion]]

\* compiler.CompileSolidityString("solc", source): an error, or the units of
\* the source keyed by "<stdin>:" and the contract's name.  Runtime code is
\* "0x" and hex digits; the metadata hash differs from compile to compile.
CompileSolidityString(source) ==
    CASE source = SrcFoo ->
           [err |-> FALSE,
            units |-> [k \in {"<stdin>:Foo"} |->
               Unit(Ox \o CodeA \o Marker \o <<"a", "b">> \o Trailer, source)]]
      [] source = SrcFooBar ->
           [err |-> FALSE,
            units |-> [k \in {"<stdin>:Foo", "<stdin>:Bar"} |->
               IF k = "<stdin>:Foo"
               THEN Unit(Ox \o CodeA \o Marker \o <<"c", "d", "e">> \o Trailer, source)
               ELSE Unit(<<>>, source)]]
      [] source = SrcIface ->
           [err |-> FALSE,
            units |-> [k \in {"<stdin>:Bar"} |-> Unit(Ox, source)]]
      [] OTHER -> [err |-> TRUE, units |-> [k \in {} |-> Unit(<<>>, source)]]

NoCompileData == [err |-> TRUE, units |-> [k \in {} |-> Unit(<<>>, "")]]

\* bytecode the grabber can observe on chain (hex, no 0x)
ChainBytecodes == {CodeA \o Marker \o <<"1", "2">> \o Trailer, CodeB}

\* mongo.importContract: a new, unverified document
NewContract(address, byteCode, t) ==
    [Address |-> address, Bytecode |-> byteCode, Valid |-> FALSE,
     Optimization |-> FALSE, ContractName |-> "", SourceCode |-> "",
     CompilerVersion |-> "", UpdatedAt |-> t]

\* mongo.getContract(address): nil or the document
getContract(st, address) == st[address]

\* mongo.updateContract(contract): an atomic conditional write; it replaces
\* the document only if the stored one is still the one the request fetched,
\* and reports whether it did
updateContractOk(st, c, pre, fault) ==
    /\ ~fault
    /\ st[c.Address] = pre

updateContract(st, c, pre, fault) ==
    IF updateContractOk(st, c, pre, fault)
    THEN [st EXCEPT ![c.Address] = <<c>>]
    ELSE st

----------------------------------------------------------------------------
(* VerifyContract *)

Error(text) == <<[text |-> text, arg |-> ""]>>

NoError == <<>>

NotFound == Error("contract with given address not found")

AlreadyVerified == Error("contract with given address is already verified")

CompilationFailed == Error("error occurred while compiling source code")

UnknownContractName == Error("invalid contract name")

EmptyBytecode == Error("contract binary is empty")

PersistenceFailed == Error("error occurred while processing data")

BytecodeMismatch_normalized(data) ==
    <<[text |-> "the compiled result does not match the input creation bytecode located at ",
       arg |-> HexToAddressHex(data.Address)]>>

\* errors.New("... located at " + contractData.Address)
BytecodeMismatch(data) ==
    <<[text |-> "the compiled result does not match the input creation bytecode located at ",
       arg |-> data.Address]>>

UnitKey_bare(name) == name

\* key := "<stdin>:" + contractData.ContractName
UnitKey(name) == "<stdin>:" \o name

IsVerified_never(c) == FALSE

\* contract.Valid == true
IsVerified(c) == c.Valid = TRUE

SameBytecode_raw(runtimeCode, bytecode) ==
    DropOx(runtimeCode) = bytecode

\* sourceBin == contractBin, both with the metadata hash removed
SameBytecode(runtimeCode, bytecode) ==
    ReplaceAllString(DropOx(runtimeCode)) = ReplaceAllString(bytecode)

Verified_noOptimization(c, data, unit, t) ==
    [c EXCEPT !.Valid = TRUE,
              !.ContractName = data.ContractName,
              !.SourceCode = unit.Info.Source,
              !.CompilerVersion = unit.Info.CompilerVersion,
              !.UpdatedAt = t]

\* the assignments to contract before it is persisted
Verified(c, data, unit, t) ==
    [c EXCEPT !.Valid = TRUE,
              !.Optimization = TRUE,
              !.ContractName = data.ContractName,
              !.SourceCode = unit.Info.Source,
              !.CompilerVersion = unit.Info.CompilerVersion,
              !.UpdatedAt = t]

UpdateReturn_ignored(ok, c) == [ret |-> <<c>>, err |-> NoError]

UpdateReturn_inverted(ok, c) ==
    IF ok THEN [ret |-> <<>>, err |-> PersistenceFailed]
    ELSE [ret |-> <<c>>, err |-> NoError]

\* result := self.mongo.updateContract(contract); if !result { error }
UpdateReturn(ok, c) ==
    IF ~ok THEN [ret |-> <<>>, err |-> PersistenceFailed]
    ELSE [ret |-> <<c>>, err |-> NoError]

Failed(e) == [ret |-> <<>>, err |-> e]

NoResult == [ret |-> <<>>, err |-> NoError]

NoData == [Address |-> "", ContractName |-> "", SourceCode |-> ""]

Requests ==
    [Address : SubmittedAddresses, ContractName : ContractNames,
     SourceCode : SourceCodes]

----------------------------------------------------------------------------
(* The requests *)

VerifyIdle ==
    /\ store = [a \in CanonicalAddresses |-> <<>>]
    /\ now = 0
    /\ pc = [p \in Procs |-> "idle"]
    /\ contractData = [p \in Procs |-> NoData]
    /\ contract = [p \in Procs |-> <<>>]
    /\ preRead = [p \in Procs |-> <<>>]
    /\ compileData = [p \in Procs |-> NoCompileData]
    /\ result = [p \in Procs |-> NoResult]
    /\ atCall = [p \in Procs |-> <<>>]
    /\ compilerCalls = [p \in Procs |-> 0]
    /\ writes = [p \in Procs |-> 0]
    /\ storeFault = [p \in Procs |-> FALSE]

CanonIdle ==
    /\ bcPrefix = <<>>
    /\ bcHashA = <<>>
    /\ bcHashB = <<>>
    /\ canonPc = "off"
    /\ canonOnce = <<>>
    /\ canonTwice = <<>>

VersionIdle ==
    /\ fullVersion = <<>>
    /\ versionErr = FALSE
    /\ versionPc = "off"
    /\ versionResult = [ret |-> <<>>, err |-> NoError, panicked |-> FALSE]

Init == VerifyIdle /\ CanonIdle /\ VersionIdle

\* time passes
Tick ==
    /\ now < MaxTime
    /\ now' = now + 1
    /\ UNCHANGED <<store, pc, contractData, contract, preRead, compileData,
                   result, atCall, compilerCalls, writes, storeFault>>
    /\ UNCHANGED <<canonVars, versionVars>>

\* the grabber records a contract deployment it observes for the first time
ImportContract(address, byteCode) ==
    /\ store[address] = <<>>
    /\ store' = [store EXCEPT ![address] = <<NewContract(address, byteCode, now)>>]
    /\ UNCHANGED <<now, pc, contractData, contract, preRead, compileData,
                   result, atCall, compilerCalls, writes, storeFault>>
    /\ UNCHANGED <<canonVars, versionVars>>

\* a caller submits address, contract name and source code
Call(p, data) ==
    /\ pc[p] = "idle"
    /\ pc' = [pc EXCEPT ![p] = "getContract"]
    /\ contractData' = [contractData EXCEPT ![p] = data]
    /\ atCall' = [atCall EXCEPT ![p] = store[HexToAddressHex(data.Address)]]
    /\ UNCHANGED <<store, now, contract, preRead, compileData, result,
                   compilerCalls, writes, storeFault>>
    /\ UNCHANGED <<canonVars, versionVars>>

\* contract := self.GetContract(contractData.Address), and the two checks of it
GetContractStep(p) ==
    /\ pc[p] = "getContract"
    /\ LET c == getContract(store, HexToAddressHex(contractData[p].Address))
       IN  /\ contract' = [contract EXCEPT ![p] = c]
           /\ preRead' = [preRead EXCEPT ![p] = c]
           /\ IF c = <<>>
              THEN /\ result' = [result EXCEPT ![p] = Failed(NotFound)]
                   /\ pc' = [pc EXCEPT ![p] = "done"]
              ELSE IF IsVerified(c[1])
              THEN /\ result' = [result EXCEPT ![p] = Failed(AlreadyVerified)]
                   /\ pc' = [pc EXCEPT ![p] = "done"]
              ELSE /\ result' = result
                   /\ pc' = [pc EXCEPT ![p] = "compile"]
    /\ UNCHANGED <<store, now, contractData, compileData, atCall,
                   compilerCalls, writes, storeFault>>
    /\ UNCHANGED <<canonVars, versionVars>>

\* the compiler runs; then the unit of the declared name is looked up
CompileStep(p) ==
    /\ pc[p] = "compile"
    /\ LET out == CompileSolidityString(contractData[p].SourceCode)
           key == UnitKey(contractData[p].ContractName)
       IN  /\ compileData' = [compileData EXCEPT ![p] = out]
           /\ compilerCalls' = [compilerCalls EXCEPT ![p] = @ + 1]
           /\ IF out.err
              THEN /\ result' = [result EXCEPT ![p] = Failed(CompilationFailed)]
                   /\ pc' = [pc EXCEPT ![p] = "done"]
              ELSE IF key \notin DOMAIN out.units
              THEN /\ result' = [result EXCEPT ![p] = Failed(UnknownContractName)]
                   /\ pc' = [pc EXCEPT ![p] = "done"]
              ELSE IF out.units[key].RuntimeCode = <<>>
              THEN /\ result' = [result EXCEPT ![p] = Failed(EmptyBytecode)]
                   /\ pc' = [pc EXCEPT ![p] = "done"]
              ELSE /\ result' = result
                   /\ pc' = [pc EXCEPT ![p] = "compare"]
    /\ UNCHANGED <<store, now, contractData, contract, preRead, atCall,
                   writes, storeFault>>
    /\ UNCHANGED <<canonVars, versionVars>>

\* both bytecodes lose their metadata hash and are compared; on a match the
\* local contract takes the verification fields
CompareStep(p) ==
    /\ pc[p] = "compare"
    /\ LET unit == compileData[p].units[UnitKey(contractData[p].ContractName)]
       IN  IF SameBytecode(unit.RuntimeCode, contract[p][1].Bytecode)
           THEN /\ contract' = [contract EXCEPT
                       ![p] = <<Verified(contract[p][1], contractData[p], unit, now)>>]
                /\ result' = result
                /\ pc' = [pc EXCEPT ![p] = "update"]
           ELSE /\ contract' = contract
                /\ result' = [result EXCEPT
                       ![p] = Failed(BytecodeMismatch(contractData[p]))]
                /\ pc' = [pc EXCEPT ![p] = "done"]
    /\ UNCHANGED <<store, now, contractData, preRead, compileData, atCall,
                   compilerCalls, writes, storeFault>>
    /\ UNCHANGED <<canonVars, versionVars>>

\* result := self.mongo.updateContract(contract), and the return
UpdateStep(p, fault) ==
    /\ pc[p] = "update"
    /\ LET c == contract[p][1]
           ok == updateContractOk(store, c, preRead[p], fault)
       IN  /\ store' = updateContract(store, c, preRead[p], fault)
           /\ writes' = [writes EXCEPT ![p] = IF store' # store THEN @ + 1 ELSE @]
           /\ result' = [result EXCEPT ![p] = UpdateReturn(ok, c)]
    /\ storeFault' = [storeFault EXCEPT ![p] = fault]
    /\ pc' = [pc EXCEPT ![p] = "done"]
    /\ UNCHANGED <<now, contractData, contract, preRead, compileData, atCall,
                   compilerCalls>>
    /\ UNCHANGED <<canonVars, versionVars>>

\* the caller has the answer; the request's locals are gone
Return(p) ==
    /\ pc[p] = "done"
    /\ pc' = [pc EXCEPT ![p] = "idle"]
    /\ contractData' = [contractData EXCEPT ![p] = NoData]
    /\ contract' = [contract EXCEPT ![p] = <<>>]
    /\ preRead' = [preRead EXCEPT ![p] = <<>>]
    /\ compileData' = [compileData EXCEPT ![p] = NoCompileData]
    /\ result' = [result EXCEPT ![p] = NoResult]
    /\ atCall' = [atCall EXCEPT ![p] = <<>>]
    /\ compilerCalls' = [compilerCalls EXCEPT ![p] = 0]
    /\ writes' = [writes EXCEPT ![p] = 0]
    /\ storeFault' = [storeFault EXCEPT ![p] = FALSE]
    /\ UNCHANGED <<store, now>>
    /\ UNCHANGED <<canonVars, versionVars>>

Next ==
    \/ Tick
    \/ \E a \in CanonicalAddresses, b \in ChainBytecodes : ImportContract(a, b)
    \/ \E p \in Procs, data \in Requests : Call(p, data)
    \/ \E p \in Procs : GetContractStep(p)
    \/ \E p \in Procs : CompileStep(p)
    \/ \E p \in Procs : CompareStep(p)
    \/ \E p \in Procs, fault \in BOOLEAN : UpdateStep(p, fault)
    \/ \E p \in Procs : Return(p)

Spec == Init /\ [][Next]_vars

----------------------------------------------------------------------------
(* Canonicalization on its own *)

RECURSIVE Concat(_)
Concat(frs) == IF frs = <<>> THEN <<>> ELSE Head(frs) \o Concat(Tail(frs))

\* pieces of hex text: the marker, the closing 0029, an opcode, and 029,
\* which after the marker's last 0 reads 0029 without being a suffix of its own
HexFragments == {Marker, Trailer, <<"6", "0">>, <<"0", "2", "9">>}

HexTexts(n) == {Concat(frs) : frs \in UNION {[1..k -> HexFragments] : k \in 0..n}}

\* a bytecode ending in a metadata-hash suffix
WithSuffix(prefix, hash) == prefix \o Marker \o hash \o Trailer

InitCanon ==
    /\ VerifyIdle
    /\ VersionIdle
    /\ bcPrefix \in HexTexts(MaxPrefixFrags)
    /\ bcHashA \in HexTexts(MaxHashFrags)
    /\ bcHashB \in HexTexts(MaxHashFrags)
    /\ canonPc = "start"
    /\ canonOnce = <<>>
    /\ canonTwice = <<>>

\* the pattern is removed from each text, and the two suffixed bytecodes are
\* compared as VerifyContract compares compiled and stored bytecode
Canonicalize ==
    /\ canonPc = "start"
    /\ canonPc' = "once"
    /\ canonOnce' = <<[a |-> ReplaceAllString(WithSuffix(bcPrefix, bcHashA)),
                       b |-> ReplaceAllString(WithSuffix(bcPrefix, bcHashB)),
                       p |-> ReplaceAllString(bcPrefix),
                       same |-> SameBytecode(Ox \o WithSuffix(bcPrefix, bcHashA),
                                             WithSuffix(bcPrefix, bcHashB))]>>
    /\ UNCHANGED <<bcPrefix, bcHashA, bcHashB, canonTwice>>
    /\ UNCHANGED <<verifyVars, versionVars>>

\* the pattern is removed again from what the first removal left
Recanonicalize ==
    /\ canonPc = "once"
    /\ canonPc' = "twice"
    /\ canonTwice' = <<[a |-> ReplaceAllString(canonOnce[1].a),
                        b |-> ReplaceAllString(canonOnce[1].b),
                        p |-> ReplaceAllString(canonOnce[1].p)]>>
    /\ UNCHANGED <<bcPrefix, bcHashA, bcHashB, canonOnce>>
    /\ UNCHANGED <<verifyVars, versionVars>>

NextCanon == Canonicalize \/ Recanonicalize

SpecCanon == InitCanon /\ [][NextCanon]_vars

----------------------------------------------------------------------------
(* GetCompilerVersion *)

Digits == {"0", "1", "2", "3", "4", "5", "6", "7", "8", "9"}

PlusCommit == <<"+", "c", "o", "m", "m", "i", "t", ".">>

\* last index of the longest run of characters of `class` starting at i
\* (i - 1 when there is none)
RunEnd(s, i, class) ==
    LET run == {j \in i..Len(s) : \A k \in i..j : s[k] \in class}
    IN  IF run = {} THEN i - 1 ELSE CHOOSE j \in run : \A k \in run : k <= j

NotDot(s) == {s[k] : k \in 1..Len(s)} \ {"."}

\* `([0-9]+)\.([0-9]+)\.([0-9]+)\+commit\.[^.]*` matched from i: the three
\* groups and the end of the match, or <<>>
VersionMatchAt(s, i) ==
    LET e1 == RunEnd(s, i, Digits)
        e2 == RunEnd(s, e1 + 2, Digits)
        e3 == RunEnd(s, e2 + 2, Digits)
        e4 == RunEnd(s, e3 + 1 + Len(PlusCommit), NotDot(s))
    IN  IF /\ e1 >= i
           /\ HasLiteralAt(s, e1 + 1, <<".">>)
           /\ e2 >= e1 + 2
           /\ HasLiteralAt(s, e2 + 1, <<".">>)
           /\ e3 >= e2 + 2
           /\ HasLiteralAt(s, e3 + 1, PlusCommit)
        THEN <<SubSeq(s, i, e4), SubSeq(s, i, e1), SubSeq(s, e1 + 2, e2),
               SubSeq(s, e2 + 2, e3)>>
        ELSE <<>>

\* versionRegexp.FindStringSubmatch(s): the leftmost match and its groups,
\* or nil
FindStringSubmatch(s) ==
    LET starts == {i \in 1..Len(s) : VersionMatchAt(s, i) # <<>>}
    IN  IF starts = {} THEN <<>>
        ELSE VersionMatchAt(s, CHOOSE i \in starts : \A j \in starts : i <= j)

VersionQueryFailed == Error("error occurred while processing")

VersionLabel == <<"V", "e", "r", "s", "i", "o", "n", ":", " ">>

Numbers == UNION {[1..k -> {"0", "4"}] : k \in 0..MaxDigits}

\* what `solc --version` may print as its version
FullVersions ==
    {pre \o a \o s1 \o b \o s2 \o c \o tag \o hash \o post :
        pre \in {<<>>, VersionLabel},
        a \in Numbers, b \in Numbers, c \in Numbers,
        s1 \in {<<".">>, <<"-">>}, s2 \in {<<".">>, <<"-">>},
        tag \in {PlusCommit, <<"+">>},
        hash \in {<<>>, <<"e", "6">>},
        post \in {<<>>, <<".", "L">>}}

InitVersion ==
    /\ VerifyIdle
    /\ CanonIdle
    /\ fullVersion \in FullVersions
    /\ versionErr \in BOOLEAN
    /\ versionPc = "start"
    /\ versionResult = [ret |-> <<>>, err |-> NoError, panicked |-> FALSE]

\* longVersion[0] of a nil slice is a run-time panic (index out of range)
GetCompilerVersion ==
    /\ versionPc = "start"
    /\ versionPc' = "done"
    /\ versionResult' =
         IF versionErr
         THEN [ret |-> <<>>, err |-> VersionQueryFailed, panicked |-> FALSE]
         ELSE LET longVersion == FindStringSubmatch(fullVersion)
              IN  IF Len(longVersion) = 0
                  THEN [ret |-> <<>>, err |-> NoError, panicked |-> TRUE]
                  ELSE [ret |-> longVersion[1], err |-> NoError,
                        panicked |-> FALSE]
    /\ UNCHANGED <<fullVersion, versionErr>>
    /\ UNCHANGED <<verifyVars, canonVars>>

NextVersion == GetCompilerVersion

SpecVersion == InitVersion /\ [][NextVersion]_vars

----------------------------------------------------------------------------
(* Properties of VerifyContract *)

Done(p) == pc[p] = "done"

Succeeded(p) == Done(p) /\ result[p].err = NoError

StoredAt(p) == store[HexToAddressHex(contractData[p].Address)]

\* the request, alone, would verify the document d
WouldVerify(data, d) ==
    LET out == CompileSolidityString(data.SourceCode)
        key == "<stdin>:" \o data.ContractName
    IN  /\ ~out.err
        /\ key \in DOMAIN out.units
        /\ out.units[key].RuntimeCode # <<>>
        /\ ReplaceAllString(DropOx(out.units[key].RuntimeCode))
             = ReplaceAllString(d.Bytecode)

\* C1: a call on an address whose stored record is already valid fails with
\* AlreadyVerified whatever name and source are submitted: it returns no
\* record, never reaches the compiler, the comparison or the store update.
C1_AlreadyVerified ==
    \A p \in Procs :
        (atCall[p] # <<>> /\ atCall[p][1].Valid) =>
            /\ pc[p] \in {"getContract", "done"}
            /\ compilerCalls[p] = 0
            /\ writes[p] = 0
            /\ Done(p) => result[p] = [ret |-> <<>>, err |-> AlreadyVerified]

C1_Witness ==
    \E p \in Procs :
        /\ Done(p)
        /\ atCall[p] # <<>>
        /\ atCall[p][1].Valid
        /\ WouldVerify(contractData[p], atCall[p][1])
        /\ result[p].err = AlreadyVerified

\* the call began while the record was stored and unverified, with input
\* that verifies it
Racing(p) ==
    /\ atCall[p] # <<>>
    /\ ~atCall[p][1].Valid
    /\ WouldVerify(contractData[p], atCall[p][1])

\* C2: of two calls for the same address that both began while it was
\* unverified, each with input that verifies it, at most one writes the
\* record and at most one succeeds; when the store rejects updates only for
\* conflicts, exactly one succeeds, it is the one that wrote, and the other
\* fails with AlreadyVerified or PersistenceFailed.
C2_OneWinner ==
    \A p, q \in Procs :
        ( /\ p # q
          /\ Done(p) /\ Done(q)
          /\ HexToAddressHex(contractData[p].Address)
               = HexToAddressHex(contractData[q].Address)
          /\ Racing(p) /\ Racing(q) ) =>
            /\ writes[p] + writes[q] <= 1
            /\ ~(Succeeded(p) /\ Succeeded(q))
            /\ (~storeFault[p] /\ ~storeFault[q]) =>
                 \E w \in {p, q} : \E l \in {p, q} \ {w} :
                    /\ Succeeded(w)
                    /\ writes[w] = 1
                    /\ writes[l] = 0
                    /\ result[l].ret = <<>>
                    /\ result[l].err \in {AlreadyVerified, PersistenceFailed}

C2_Witness ==
    \E p, q \in Procs :
        /\ p # q
        /\ Done(p) /\ Done(q)
        /\ Racing(p) /\ Racing(q)
        /\ ~storeFault[p] /\ ~storeFault[q]
        /\ Succeeded(p)
        /\ result[q].err = PersistenceFailed
        /\ preRead[q] # <<>>
        /\ ~preRead[q][1].Valid

\* C3: a call mutates the store at most once, and only when it returns
\* success: before it returns, and whenever it returns an error, it has
\* written nothing.
C3_WriteOnlyOnSuccess ==
    \A p \in Procs :
        /\ writes[p] <= 1
        /\ ~Done(p) => writes[p] = 0
        /\ (Done(p) /\ result[p].err # NoError) =>
              /\ writes[p] = 0
              /\ result[p].ret = <<>>

C3_Witness ==
    \E p \in Procs :
        /\ Done(p)
        /\ result[p].err = PersistenceFailed
        /\ storeFault[p]
        /\ writes[p] = 0
        /\ StoredAt(p) = atCall[p]
        /\ pc = [q \in Procs |-> IF q = p THEN "done" ELSE "idle"]

\* C4: a record is created unverified, and once its valid flag is true no
\* step changes the record: the flag never returns to false and name, source
\* and compiler version are never overwritten.
C4_ValidMonotone ==
    [][\A a \in CanonicalAddresses :
          /\ (store[a] = <<>> /\ store'[a] # <<>>) => ~store'[a][1].Valid
          /\ (store[a] # <<>> /\ store[a][1].Valid) => store'[a] = store[a]
          /\ (store[a] # <<>> /\ store'[a] # store[a]) =>
                ~store[a][1].Valid /\ store'[a][1].Valid]_vars

C4_Witness ==
    \E p, q \in Procs :
        /\ p # q
        /\ Succeeded(p)
        /\ Done(q)
        /\ result[q].err = AlreadyVerified
        /\ WouldVerify(contractData[q], preRead[q][1])
        /\ contractData[q].SourceCode # StoredAt(q)[1].SourceCode
        /\ StoredAt(q) = result[p].ret

\* C7: when the fetched record is unverified, the compiler succeeded, the
\* unit of the declared name exists with non-empty runtime code, and the
\* canonical bytecodes differ, the call fails with BytecodeMismatch and the
\* message ends with the address exactly as submitted.
C7_MismatchCarriesAddress ==
    \A p \in Procs :
        LET key == "<stdin>:" \o contractData[p].ContractName
        IN  ( /\ Done(p)
              /\ preRead[p] # <<>>
              /\ ~preRead[p][1].Valid
              /\ ~compileData[p].err
              /\ key \in DOMAIN compileData[p].units
              /\ compileData[p].units[key].RuntimeCode # <<>>
              /\ ReplaceAllString(DropOx(compileData[p].units[key].RuntimeCode))
                   # ReplaceAllString(preRead[p][1].Bytecode) ) =>
                /\ result[p].ret = <<>>
                /\ Len(result[p].err) = 1
                /\ result[p].err[1].text =
                     "the compiled result does not match the input creation bytecode located at "
                /\ result[p].err[1].arg = contractData[p].Address

C7_Witness ==
    \E p \in Procs :
        /\ Done(p)
        /\ result[p].err = BytecodeMismatch(contractData[p])
        /\ contractData[p].Address # HexToAddressHex(contractData[p].Address)
        /\ preRead[p][1].Bytecode = CodeB
        /\ compilerCalls[p] = 1

\* the first failure, in the fixed order, that applies to a finished call
FirstFailure(p) ==
    LET out == CompileSolidityString(contractData[p].SourceCode)
        key == "<stdin>:" \o contractData[p].ContractName
    IN  IF preRead[p] = <<>> THEN NotFound
        ELSE IF preRead[p][1].Valid THEN AlreadyVerified
        ELSE IF out.err THEN CompilationFailed
        ELSE IF key \notin DOMAIN out.units THEN UnknownContractName
        ELSE IF out.units[key].RuntimeCode = <<>> THEN EmptyBytecode
        ELSE IF ReplaceAllString(DropOx(out.units[key].RuntimeCode))
                  # ReplaceAllString(preRead[p][1].Bytecode)
             THEN BytecodeMismatch(contractData[p])
        ELSE IF writes[p] = 0 THEN PersistenceFailed
        ELSE NoError

ErrorsOf(data) ==
    {NotFound, AlreadyVerified, CompilationFailed, UnknownContractName,
     EmptyBytecode, BytecodeMismatch(data), PersistenceFailed}

\* C9: a finished call returns the first failure that applies, in the order
\* NotFound, AlreadyVerified, CompilationFailed, UnknownContractName,
\* EmptyBytecode, BytecodeMismatch, PersistenceFailed; the compiler runs once
\* unless the record is absent or already valid, and then not at all; the
\* seven errors are pairwise distinct.
C9_FirstFailure ==
    \A p \in Procs :
        Done(p) =>
            /\ result[p].err = FirstFailure(p)
            /\ compilerCalls[p] =
                 IF preRead[p] = <<>> \/ preRead[p][1].Valid THEN 0 ELSE 1
            /\ Cardinality(ErrorsOf(contractData[p])) = 7
            /\ NoError \notin ErrorsOf(contractData[p])

C9_Witness ==
    \E p, q \in Procs :
        /\ Done(p) /\ Done(q)
        /\ result[p].err = EmptyBytecode
        /\ result[q].err = UnknownContractName
        /\ compilerCalls[p] = 1

\* a stored or returned record carries all verification fields or none
Whole(d) ==
    \/ /\ ~d.Valid /\ ~d.Optimization
       /\ d.ContractName = "" /\ d.SourceCode = "" /\ d.CompilerVersion = ""
    \/ /\ d.Valid /\ d.Optimization
       /\ d.ContractName # "" /\ d.SourceCode # "" /\ d.CompilerVersion # ""

\* C10: a call whose update the store accepted returns the record with
\* valid and optimization true, the declared name, and the compiler's source
\* and version, address and bytecode as fetched, and the stored record equals
\* it; every stored record has all verification fields or none of them.
C10_Success ==
    /\ \A a \in CanonicalAddresses : store[a] # <<>> => Whole(store[a][1])
    /\ \A p \in Procs :
          (Done(p) /\ (writes[p] = 1 \/ result[p].err = NoError)) =>
             LET unit == compileData[p].units[
                            "<stdin>:" \o contractData[p].ContractName]
             IN  /\ result[p].err = NoError
                 /\ writes[p] = 1
                 /\ Len(result[p].ret) = 1
                 /\ result[p].ret[1].Valid = TRUE
                 /\ result[p].ret[1].Optimization = TRUE
                 /\ result[p].ret[1].ContractName = contractData[p].ContractName
                 /\ result[p].ret[1].SourceCode = unit.Info.Source
                 /\ result[p].ret[1].CompilerVersion = unit.Info.CompilerVersion
                 /\ result[p].ret[1].Address = preRead[p][1].Address
                 /\ result[p].ret[1].Bytecode = preRead[p][1].Bytecode
                 /\ Whole(result[p].ret[1])
                 /\ StoredAt(p) = result[p].ret

C10_Witness ==
    \E p \in Procs :
        /\ Succeeded(p)
        /\ contractData[p].ContractName = "Foo"
        /\ StoredAt(p) = result[p].ret
        /\ StoredAt(p) # preRead[p]
        /\ StoredAt(p)[1].UpdatedAt > preRead[p][1].UpdatedAt

----------------------------------------------------------------------------
(* Properties of canonicalization *)

\* C5: two bytecodes with the same prefix, each ending in the marker, any
\* hex text and a final 0029, canonicalize to the same string, and the
\* comparison of VerifyContract finds them equal.
C5_SuffixInsensitive ==
    canonPc \in {"once", "twice"} =>
        /\ canonOnce[1].a = canonOnce[1].b
        /\ canonOnce[1].same

C5_Witness ==
    /\ canonPc = "once"
    /\ bcHashA # bcHashB
    /\ bcPrefix # <<>>
    /\ canonOnce[1].a = canonOnce[1].b
    /\ canonOnce[1].a = bcPrefix

\* C6: removing the pattern from an already canonical string changes nothing.
C6_Idempotent ==
    canonPc = "twice" =>
        /\ canonTwice[1].a = canonOnce[1].a
        /\ canonTwice[1].b = canonOnce[1].b
        /\ canonTwice[1].p = canonOnce[1].p

C6_Witness ==
    /\ canonPc = "twice"
    /\ canonOnce[1].p # bcPrefix
    /\ canonOnce[1].p # <<>>
    /\ canonTwice[1].p = canonOnce[1].p

----------------------------------------------------------------------------
(* Properties of GetCompilerVersion *)

HasVersion(s) == \E i \in 1..Len(s) : VersionMatchAt(s, i) # <<>>

\* C8: GetCompilerVersion never crashes; it returns an error when the
\* compiler's version call errors and when the version string has no match
\* for the pattern, and the matched substring otherwise.
C8_VersionErrors ==
    versionPc = "done" =>
        /\ ~versionResult.panicked
        /\ versionErr => versionResult.err = VersionQueryFailed
        /\ (~versionErr /\ ~HasVersion(fullVersion)) =>
              versionResult.err # NoError
        /\ (~versionErr /\ HasVersion(fullVersion)) =>
              /\ versionResult.err = NoError
              /\ versionResult.ret = FindStringSubmatch(fullVersion)[1]

====
